---- MODULE Spec2Model ----
(***************************************************************************)
(* examples/3d/transmission_black.rs: the scene built by `setup` and the   *)
(* orbit/dolly camera driven every frame by `camera_control_system`.       *)
(*                                                                         *)
(* f32 values are fixed-point integers.  World lengths (the components of  *)
(* a translation) are counted in 1/Unit of a world unit; every other       *)
(* scalar (seconds, radians, the factor exp(d), the entries of a rotation) *)
(* is counted in 1/One.  Every product is rounded to the nearest step, as  *)
(* an f32 product is rounded to the nearest float.                         *)
(***************************************************************************)
EXTENDS Integers, Sequences, FiniteSets

VARIABLES phase, nodes, cameras, input, time, prev, frame

vars == <<phase, nodes, cameras, input, time, prev, frame>>

\* Resolution of a world length: 1/500 of a world unit.
Unit == 5 * 100
\* Resolution of a scalar: 1/10000.
One == 100 * 100

\* Frames of the Update schedule a run is followed for.
MaxFrames == 3
\* Largest number of Camera3d entities of a world handed to the controller.
MaxCameras == 2
\* Terms of the power series of exp, sin and cos.
SeriesTerms == 9

\* The values time.delta_seconds() takes: 0.1 s and 0.8 s.
DeltaSet == {One \div 10, (8 * One) \div 10}

\* The four keys the controller reads.
KeyCodes == {"Left", "Right", "Up", "Down"}

-----------------------------------------------------------------------------
(* f32 arithmetic *)

\* a / b rounded to the nearest integer (b > 0).
RoundDiv(a, b) == (a + (b \div 2)) \div b

\* The product of two scalars, or of a length and a scalar.
Mul(a, s) == RoundDiv(a * s, One)

RECURSIVE SqrtIter(_, _, _)
SqrtIter(n, lo, hi) ==
    IF lo >= hi THEN lo
    ELSE LET mid == (lo + hi + 1) \div 2
         IN IF mid * mid <= n THEN SqrtIter(n, mid, hi)
                              ELSE SqrtIter(n, lo, mid - 1)

\* f32::sqrt, rounded down to the resolution.
Sqrt(n) == SqrtIter(n, 0, 46340)

RECURSIVE ExpSeries(_, _, _)
ExpSeries(x, n, term) ==
    IF n > SeriesTerms THEN 0
    ELSE term + ExpSeries(x, n + 1, RoundDiv(term * x, (n + 1) * One))

\* f32::exp: 1 + x + x^2/2! + ...
Exp(x) == ExpSeries(x, 0, One)

RECURSIVE TrigSeries(_, _, _)
TrigSeries(x, n, term) ==
    IF n > 2 * SeriesTerms THEN 0
    ELSE term + TrigSeries(x, n + 2,
                           -RoundDiv(Mul(term, x) * x, (n + 1) * (n + 2) * One))

\* f32::sin and f32::cos: x - x^3/3! + ... and 1 - x^2/2! + ...
Sin(x) == TrigSeries(x, 1, x)
Cos(x) == TrigSeries(x, 0, One)

-----------------------------------------------------------------------------
(* glam::Vec3, glam::Quat *)

Vec3(x, y, z) == [x |-> x, y |-> y, z |-> z]

ZERO == Vec3(0, 0, 0)

\* Vec3::length
Length(v) == Sqrt(v.x * v.x + v.y * v.y + v.z * v.z)

\* Vec3 * f32
Scaled(v, s) == Vec3(Mul(v.x, s), Mul(v.y, s), Mul(v.z, s))

\* Vec3::normalize: the unit vector, its components in 1/One.
Normalize(v) ==
    LET len == Length(v)
    IN Vec3(RoundDiv(v.x * One, len), RoundDiv(v.y * One, len),
            RoundDiv(v.z * One, len))

\* Vec3::cross of two unit vectors.
Cross(a, b) ==
    Vec3(Mul(a.y, b.z) - Mul(a.z, b.y),
         Mul(a.z, b.x) - Mul(a.x, b.z),
         Mul(a.x, b.y) - Mul(a.y, b.x))

\* Quat::from_euler(EulerRot::XYZ, 0.0, yaw, 0.0): the rotation by yaw about
\* the world up axis Y, kept as the cosine and sine of the angle.
FromEulerY(yaw) == [cos |-> Cos(yaw), sin |-> Sin(yaw)]

\* Quat * Vec3 for a rotation about Y.
RotateVec(q, v) ==
    Vec3(Mul(v.x, q.cos) + Mul(v.z, q.sin),
         v.y,
         Mul(v.z, q.cos) - Mul(v.x, q.sin))

\* Quat * Quat: a rotation about Y applied to an orientation, which is kept
\* as its three axes (the columns right, up, back of the rotation matrix).
RotateQuat(q, r) ==
    [right |-> RotateVec(q, r.right),
     up    |-> RotateVec(q, r.up),
     back  |-> RotateVec(q, r.back)]

-----------------------------------------------------------------------------
(* bevy Transform *)

\* Transform::from_xyz(x, y, z): the translation, and the identity rotation.
FromXyz(x, y, z) ==
    [translation |-> Vec3(x, y, z),
     rotation    |-> [right |-> Vec3(One, 0, 0), up |-> Vec3(0, One, 0),
                      back  |-> Vec3(0, 0, One)]]

\* Transform::looking_at(target, Vec3::Y): back points from the target to the
\* transform, right = Y x back, up = back x right.
LookingAt(t, target) ==
    LET back  == Normalize(Vec3(t.translation.x - target.x,
                                t.translation.y - target.y,
                                t.translation.z - target.z))
        right == Normalize(Cross(Vec3(0, One, 0), back))
    IN [t EXCEPT !.rotation =
            [right |-> right, up |-> Cross(back, right), back |-> back]]

\* Transform::forward: the rotation applied to -Z.
Forward(t) == Vec3(-t.rotation.back.x, -t.rotation.back.y, -t.rotation.back.z)

\* Transform::translate_around(point, q): translation = point + q * (translation - point)
TranslateAround(t, point, q) ==
    LET rel == RotateVec(q, Vec3(t.translation.x - point.x,
                                 t.translation.y - point.y,
                                 t.translation.z - point.z))
    IN [t EXCEPT !.translation =
            Vec3(point.x + rel.x, point.y + rel.y, point.z + rel.z)]

\* Transform::rotate(q): rotation = q * rotation
Rotate(t, q) == [t EXCEPT !.rotation = RotateQuat(q, t.rotation)]

\* Transform::rotate_around(point, q): translate_around, then rotate.
RotateAround(t, point, q) == Rotate(TranslateAround(t, point, q), q)

-----------------------------------------------------------------------------
(* setup *)

\* The outer and the inner distance of the dolly, in world units.
MaxDistance == 25
MinDistance == 2

\* The directional light, the floor, the cube and the window, as spawned.
SceneNodes ==
    << [kind |-> "DirectionalLight",
        translation |-> ZERO, euler |-> <<19 * (One \div 10), 31416, 0>>,
        color |-> <<98, 95, 82>>, illuminance |-> 15000,
        shadows_enabled |-> TRUE, shadow_depth_bias |-> 2 * (One \div 100),
        shadow_normal_bias |-> 6 * (One \div 10)],
       [kind |-> "Plane", size |-> 100 * Unit,
        translation |-> Vec3(0, Unit \div 2, -3 * Unit), euler |-> <<0, 0, 0>>,
        base_color |-> "GREEN", casts_shadow |-> TRUE, receives_shadow |-> TRUE],
       [kind |-> "Cube", size |-> (7 * Unit) \div 10,
        translation |-> Vec3(Unit \div 4, Unit \div 5, -2 * Unit),
        euler |-> <<14 * (One \div 10), 37 * (One \div 10), 213 * (One \div 10)>>,
        base_color |-> "RED", casts_shadow |-> TRUE, receives_shadow |-> TRUE],
       [kind |-> "Quad", size |-> 4 * Unit,
        translation |-> Vec3(Unit \div 4, Unit, -2 * Unit),
        euler |-> <<47124, 0, 0>>,
        base_color |-> "WHITE", diffuse_transmission |-> One,
        specular_transmission |-> One, thickness |-> One,
        ior |-> 14 * (One \div 10), perceptual_roughness |-> 0, reflectance |-> 0,
        casts_shadow |-> FALSE, receives_shadow |-> FALSE] >>

\* The camera's render settings.
CameraSettings ==
    [hdr |-> TRUE, exposure |-> -2 * One, post_saturation |-> 12 * (One \div 10),
     tonemapping |-> "TonyMcMapface", taa |-> TRUE, bloom |-> TRUE]

\* Variant of CameraTransform: the camera at the plane's height, from_xyz(1.0, 0.0, 7.0).
CameraTransformFlat == LookingAt(FromXyz(Unit, 0, 7 * Unit), ZERO)

\* Transform::from_xyz(1.0, 2.5, 7.0).looking_at(Vec3::ZERO, Vec3::Y)
CameraTransform == LookingAt(FromXyz(Unit, (5 * Unit) \div 2, 7 * Unit), ZERO)

\* The Camera3dBundle entity.
CameraEntity == [transform |-> CameraTransform, settings |-> CameraSettings]

\* App::new() ... before app.run(): nothing is spawned, no frame has run.
Init ==
    /\ phase = "startup"
    /\ nodes = << >>
    /\ cameras = << >>
    /\ input = {}
    /\ time = 0
    /\ prev = << >>
    /\ frame = 0

\* The Startup schedule: setup spawns the four nodes and the one camera.
setup ==
    /\ phase = "startup"
    /\ phase' = "update"
    /\ nodes' = nodes \o SceneNodes
    /\ cameras' = Append(cameras, CameraEntity)
    /\ UNCHANGED <<input, time, prev, frame>>

-----------------------------------------------------------------------------
(* camera_control_system *)

\* Query::single_mut: the one item of the query, a panic otherwise.
SingleMut(q) == IF Len(q) = 1 THEN "item" ELSE "panic"

\* Variant of Yaw: the Left branch is tested first.
YawLeftFirst(keys, dt) ==
    IF "Left" \in keys THEN -dt
    ELSE IF "Right" \in keys THEN dt
    ELSE 0

\* Variant of Yaw: no final else branch, anything but Right turns left.
YawNoElse(keys, dt) == IF "Right" \in keys THEN dt ELSE -dt

\* let yaw = if Right { dt } else if Left { -dt } else { 0.0 }
Yaw(keys, dt) ==
    IF "Right" \in keys THEN dt
    ELSE IF "Left" \in keys THEN -dt
    ELSE 0

\* Variant of DistanceChange: zoom-out is not stopped at 25.0.
DistanceChangeNoOuter(keys, dt, translation) ==
    IF "Down" \in keys THEN dt
    ELSE IF "Up" \in keys /\ Length(translation) > MinDistance * Unit THEN -dt
    ELSE 0

\* Variant of DistanceChange: zoom-in is not stopped at 2.0.
DistanceChangeNoInner(keys, dt, translation) ==
    IF "Down" \in keys /\ Length(translation) < MaxDistance * Unit THEN dt
    ELSE IF "Up" \in keys THEN -dt
    ELSE 0

\* Variant of DistanceChange: the Up branch is tested first.
DistanceChangeUpFirst(keys, dt, translation) ==
    IF "Up" \in keys /\ Length(translation) > MinDistance * Unit THEN -dt
    ELSE IF "Down" \in keys /\ Length(translation) < MaxDistance * Unit THEN dt
    ELSE 0

\* let distance_change = if Down && length < 25.0 { dt }
\*                       else if Up && length > 2.0 { -dt } else { 0.0 }
DistanceChange(keys, dt, translation) ==
    IF "Down" \in keys /\ Length(translation) < MaxDistance * Unit THEN dt
    ELSE IF "Up" \in keys /\ Length(translation) > MinDistance * Unit THEN -dt
    ELSE 0

\* Variant of Dolly: a linear step, translation *= 1.0 + distance_change.
DollyLinear(t, distance_change) ==
    [t EXCEPT !.translation = Scaled(t.translation, One + distance_change)]

\* camera_transform.translation *= distance_change.exp()
Dolly(t, distance_change) ==
    [t EXCEPT !.translation = Scaled(t.translation, Exp(distance_change))]

\* Variant of ControlTransform: translate_around in place of rotate_around, the
\* orientation is left alone.
ControlTransformTranslateOnly(t, keys, dt) ==
    TranslateAround(Dolly(t, DistanceChange(keys, dt, t.translation)),
                    ZERO, FromEulerY(Yaw(keys, dt)))

\* The body of the system on the camera's transform.
ControlTransform(t, keys, dt) ==
    RotateAround(Dolly(t, DistanceChange(keys, dt, t.translation)),
                 ZERO, FromEulerY(Yaw(keys, dt)))

\* Variant of camera_control_system: get_single_mut with an early return, a
\* query that is not one camera is skipped.
camera_control_system_skip(keys, dt) ==
    /\ phase = "update"
    /\ frame < MaxFrames
    /\ input' = keys
    /\ time' = dt
    /\ frame' = frame + 1
    /\ prev' = cameras
    /\ UNCHANGED <<nodes, phase>>
    /\ IF SingleMut(cameras) = "panic"
       THEN UNCHANGED cameras
       ELSE cameras' = [cameras EXCEPT
                ![1].transform = ControlTransform(cameras[1].transform, keys, dt)]

\* Variant of camera_control_system: the query has no With<Camera3d> filter
\* and the dolly is applied to every transform of the world.
camera_control_system_unfiltered(keys, dt) ==
    /\ phase = "update"
    /\ frame < MaxFrames
    /\ input' = keys
    /\ time' = dt
    /\ frame' = frame + 1
    /\ prev' = cameras
    /\ phase' = "update"
    /\ nodes' = [i \in DOMAIN nodes |->
                  [nodes[i] EXCEPT !.translation =
                      Scaled(@, Exp(DistanceChange(keys, dt, @)))]]
    /\ cameras' = [i \in DOMAIN cameras |->
                    [cameras[i] EXCEPT !.transform =
                        ControlTransform(@, keys, dt)]]

\* One run of the Update schedule: the engine has sampled the pressed keys and
\* the frame's delta_seconds, and the system runs on the Camera3d query.
camera_control_system(keys, dt) ==
    /\ phase = "update"
    /\ frame < MaxFrames
    /\ input' = keys
    /\ time' = dt
    /\ frame' = frame + 1
    /\ prev' = cameras
    /\ UNCHANGED nodes
    /\ IF SingleMut(cameras) = "panic"
       THEN /\ phase' = "panicked"
            /\ UNCHANGED cameras
       ELSE /\ phase' = "update"
            /\ cameras' = [cameras EXCEPT
                   ![1].transform = ControlTransform(cameras[1].transform, keys, dt)]

Update == \E keys \in SUBSET KeyCodes, dt \in DeltaSet : camera_control_system(keys, dt)

Next == setup \/ Update

Spec == Init /\ [][Next]_vars

\* The controller run on any world of at most MaxCameras cameras, each where
\* setup puts it: the query of the system is its input.
InitAnyWorld ==
    /\ phase = "update"
    /\ nodes = SceneNodes
    /\ cameras \in UNION {[1..n -> {CameraEntity}] : n \in 0..MaxCameras}
    /\ input = {}
    /\ time = 0
    /\ prev = cameras
    /\ frame = 0

SpecAnyWorld == InitAnyWorld /\ [][Update]_vars

-----------------------------------------------------------------------------
(* Properties *)

Abs(a) == IF a < 0 THEN -a ELSE a

\* A frame has run on the one camera: prev holds the camera before the frame,
\* cameras the camera after it, input and time what the frame read.
Ran == phase = "update" /\ frame > 0 /\ Len(cameras) = 1 /\ Len(prev) = 1

Cam == cameras[1].transform
Pre == prev[1].transform
Dist == Length(Cam.translation)
PreDist == Length(Pre.translation)
Outer == MaxDistance * Unit
Inner == MinDistance * Unit

\* Rounding allowed on a distance: 0.01 world unit.
DistTol == Unit \div 100
\* Rounding allowed on a component of a direction: 0.01.
DirTol == One \div 100

\* The distance after the frame is the distance before it times exp(d).
ScaledBy(d) == Abs(Dist * One - PreDist * Exp(d)) <= DistTol * One

\* C1 as stated: after every frame the distance is at most 25.0 x exp(the
\* frame's deltaSeconds), and a frame that starts at 25.0 or beyond does not
\* increase the distance, whatever keys are held.
C1_OuterBoundEveryFrame ==
    Ran => /\ Dist * One <= Outer * Exp(time) + DistTol * One
           /\ PreDist >= Outer => Dist <= PreDist + DistTol

\* C1 amended: a frame that starts below 25.0 ends at most at 25.0 x exp(its
\* deltaSeconds), and a frame that starts at 25.0 or beyond does not increase
\* the distance, whatever keys are held.
C1_OuterBound ==
    Ran => /\ PreDist < Outer => Dist * One <= Outer * Exp(time) + DistTol * One
           /\ PreDist >= Outer => Dist <= PreDist + DistTol

\* Zoom-out is held in a frame that starts beyond 25.0, after an overshoot.
C1_Witness == Ran /\ "Down" \in input /\ PreDist > Outer

\* C2 as stated: after every frame the distance is at least 2.0 x exp(-the
\* frame's deltaSeconds), a frame that starts at 2.0 or nearer does not
\* decrease the distance, and the position is never the origin.
C2_InnerBoundEveryFrame ==
    Ran => /\ Dist * One + DistTol * One >= Inner * Exp(-time)
           /\ PreDist <= Inner => Dist + DistTol >= PreDist
           /\ Cam.translation # ZERO

\* C2 amended: a frame that starts above 2.0 ends at least at 2.0 x exp(-its
\* deltaSeconds), a frame that starts at 2.0 or nearer does not decrease the
\* distance, and the position is never the origin.
C2_InnerBound ==
    Ran => /\ PreDist > Inner => Dist * One + DistTol * One >= Inner * Exp(-time)
           /\ PreDist <= Inner => Dist + DistTol >= PreDist
           /\ Cam.translation # ZERO

\* Zoom-in is held in a frame that starts nearer than 2.0, after an overshoot.
C2_Witness == Ran /\ "Up" \in input /\ PreDist < Inner

\* C3: after setup and after every frame the camera's forward direction is the
\* unit vector from the camera's position to the origin.
C3_LookAt ==
    (phase = "update" /\ Len(cameras) = 1) =>
        LET f == Forward(Cam)
            p == Cam.translation
        IN /\ Abs(f.x * Dist + p.x * One) <= DirTol * Dist
           /\ Abs(f.y * Dist + p.y * One) <= DirTol * Dist
           /\ Abs(f.z * Dist + p.z * One) <= DirTol * Dist

\* A second or later frame has both turned and dollied the camera.
C3_Witness ==
    /\ Ran /\ frame >= 2
    /\ Cam.translation.x * Pre.translation.z # Cam.translation.z * Pre.translation.x
    /\ Dist # PreDist
    /\ Pre # CameraTransform

\* C4: a frame with zoom-out held that starts below 25.0 multiplies the
\* distance by e^deltaSeconds, whatever the direction of the camera and
\* whatever rotate keys are held.
C4_ExponentialDolly ==
    (Ran /\ "Down" \in input /\ PreDist < Outer) => ScaledBy(time)

\* Zoom-out and a rotate key are held, from a direction other than setup's.
C4_Witness ==
    /\ Ran /\ "Down" \in input /\ PreDist < Outer
    /\ input \cap {"Left", "Right"} # {}
    /\ Pre.rotation # CameraTransform.rotation

\* C5 as stated: a frame with neither rotate key pressed leaves the camera's
\* position and orientation as they were.
C5_NoRotateKeyNoChange ==
    (Ran /\ input \cap {"Left", "Right"} = {}) => Cam = Pre

\* C5 amended: a frame with neither rotate key pressed leaves the orientation
\* as it was, and leaves the position as it was unless it dollies (zoom-out
\* held below 25.0, or else zoom-in held above 2.0).
C5_NoRotateKey ==
    (Ran /\ input \cap {"Left", "Right"} = {}) =>
        /\ Cam.rotation = Pre.rotation
        /\ (/\ ~("Down" \in input /\ PreDist < Outer)
            /\ ~("Up" \in input /\ PreDist > Inner)) => Cam = Pre

\* No rotate key, and no dolly although a zoom key is held, from a pose that
\* earlier frames have turned.
C5_Witness ==
    /\ Ran /\ input \cap {"Left", "Right"} = {}
    /\ "Down" \in input /\ PreDist >= Outer /\ "Up" \notin input
    /\ Pre.rotation # CameraTransform.rotation

\* C6: with both rotate keys held the frame turns the camera by
\* +deltaSeconds, as with rotate-right alone, whatever zoom keys are held; not
\* by 0 and not by -deltaSeconds.
C6_RightWins ==
    (Ran /\ {"Left", "Right"} \subseteq input) =>
        LET d == Dolly(Pre, DistanceChange(input, time, Pre.translation))
        IN /\ Cam = RotateAround(d, ZERO, FromEulerY(time))
           /\ Cam = ControlTransform(Pre, input \ {"Left"}, time)
           /\ Cam # d
           /\ Cam # RotateAround(d, ZERO, FromEulerY(-time))

\* Both rotate keys and a zoom key are held.
C6_Witness ==
    /\ Ran /\ {"Left", "Right"} \subseteq input
    /\ input \cap {"Up", "Down"} # {}
    /\ frame >= 2

\* C7: a world with no camera or with several aborts the run in the first
\* run of the controller, with no camera mutated and no later frame; a world
\* with exactly one camera never aborts.
C7_ConfigurationError ==
    /\ Len(cameras) = 1 => phase # "panicked"
    /\ (Len(cameras) # 1 /\ frame > 0) => phase = "panicked"
    /\ phase = "panicked" =>
          /\ frame = 1
          /\ cameras = prev
          /\ \A i \in DOMAIN cameras : cameras[i] = CameraEntity

\* The controller has met a world of several cameras.
C7_Witness == phase = "panicked" /\ Len(cameras) > 1

\* C8: once setup has run, the light, the plane, the cube and the window, the
\* camera's render settings and the number of nodes stay as setup made them.
C8_OnlyCameraTransform ==
    phase # "startup" =>
        /\ nodes = SceneNodes
        /\ Len(nodes) = 4
        /\ \A k \in {"DirectionalLight", "Plane", "Cube", "Quad"} :
               Cardinality({i \in DOMAIN nodes : nodes[i].kind = k}) = 1
        /\ Len(cameras) = 1
        /\ cameras[1].settings = CameraSettings

\* Frames have moved the camera away from setup's pose.
C8_Witness ==
    /\ Ran /\ frame >= 2
    /\ Cam.translation # CameraTransform.translation
    /\ Cam.rotation # CameraTransform.rotation

\* C9 as stated: setup's camera is 7.07 from the origin, and one frame of 0.1 s
\* with zoom-out held takes it to about 7.814.
C9_ExampleAsStated ==
    /\ (phase = "update" /\ frame = 0) =>
           Abs(Dist * 100 - 707 * Unit) <= DistTol * 100
    /\ (Ran /\ frame = 1 /\ time = One \div 10 /\ input = {"Down"}) =>
           Abs(Dist * 1000 - 7814 * Unit) <= DistTol * 1000

\* C9 amended: setup's camera is 7.5 from the origin, and one frame of 0.1 s
\* with zoom-out held takes it to 7.5 x e^0.1, about 8.289.
C9_Example ==
    /\ (phase = "update" /\ frame = 0) =>
           Abs(Dist * 100 - 750 * Unit) <= DistTol * 100
    /\ (Ran /\ frame = 1 /\ time = One \div 10 /\ input = {"Down"}) =>
           /\ ScaledBy(One \div 10)
           /\ Abs(Dist * 1000 - 8289 * Unit) <= DistTol * 1000

\* The first frame lasts 0.1 s with zoom-out alone held.
C9_Witness == Ran /\ frame = 1 /\ time = One \div 10 /\ input = {"Down"}

\* C10 as stated: with both zoom keys held the camera does not move closer to
\* the origin.
C10_OutOverInEverywhere ==
    (Ran /\ {"Down", "Up"} \subseteq input) => Dist + DistTol >= PreDist

\* C10 amended: with both zoom keys held, a frame that starts below 25.0
\* zooms out (the distance times e^deltaSeconds), and a frame that starts at
\* 25.0 or beyond zooms in (the distance times e^-deltaSeconds).
C10_OutOverIn ==
    (Ran /\ {"Down", "Up"} \subseteq input) =>
        /\ PreDist < Outer => (ScaledBy(time) /\ Dist > PreDist)
        /\ PreDist >= Outer => (ScaledBy(-time) /\ Dist < PreDist)

\* Both zoom keys are held below 25.0, where either branch could apply.
C10_Witness == Ran /\ {"Down", "Up"} \subseteq input /\ PreDist < Outer /\ PreDist > Inner

====
